---- MODULE Spec2Model ----
(***************************************************************************)
(* A model of roadplugin's core (src/src/roadplugin/plugin.py): the hook   *)
(* registry (HookManager), the type cache (PluginLoader), the catalog      *)
(* (PluginRegistry) and the lifecycle orchestration (PluginManager).       *)
(*                                                                         *)
(* Scheduling.  The code is asyncio code: a coroutine runs without         *)
(* interruption until it awaits something that suspends.  A lifecycle      *)
(* operation is modelled as one step (the callers serialise them); a hook  *)
(* dispatch is modelled step by step, and it suspends at every             *)
(* asynchronous handler, where any other operation may run.                *)
(***************************************************************************)
EXTENDS Integers, Sequences, FiniteSets, TLC

(* ------------------------------------------------------------------ *)
(* Bounds of the model                                                *)
(* ------------------------------------------------------------------ *)
MaxRegs == 3        \* registrations ever created
MaxInst == 3        \* plugin instances ever registered in the catalog

(* ------------------------------------------------------------------ *)
(* Program constants                                                  *)
(* ------------------------------------------------------------------ *)
HIGH == 25
NORMAL == 50

Priorities == {HIGH, NORMAL}

\* PluginState (ENABLED is a reserved word of TLA+, hence the prefix).
PS_DISCOVERED == "discovered"
PS_LOADED == "loaded"
PS_ENABLED == "enabled"
PS_DISABLED == "disabled"
PS_ERROR == "error"

PluginState == {PS_DISCOVERED, PS_LOADED, PS_ENABLED, PS_DISABLED, PS_ERROR}

\* Python's None, as a result (the values handlers return are positive).
None == -1

(* ------------------------------------------------------------------ *)
(* The environment: module names, the plugin types behind them        *)
(* ------------------------------------------------------------------ *)
\* The names a caller passes to the manager.  "a" and "b" are modules the
\* source can resolve; "c" is no module, but it is the descriptor name of
\* the type found in module "b".
Names == {"a", "b", "c"}
HookNames == {"x", "y"}

\* The names of the modules whose plugin type is built by the plugin
\* decorator; each passes its own module name to the decorator.
DecoratedNames == {"p", "q", "r", "s"}

\* What the dynamic loader finds behind a module name: a Plugin subclass,
\* or nothing.
Source ==
    [a |-> "TA", b |-> "TB", p |-> "DP", q |-> "DQ", r |-> "DR", s |-> "DS"]

\* The lifecycle callbacks of a plugin.
Callbacks == {"on_load", "on_enable", "on_disable", "on_unload"}

\* The callbacks that the object wrapped by the decorator supplies, for
\* each decorated type.
Wraps ==
    [DP |-> {}, DQ |-> Callbacks, DR |-> {"on_load", "on_disable"},
     DS |-> {"on_enable", "on_unload"}]

Decorated(t) == t \in DOMAIN Wraps

\* The methods that DecoratedPlugin defines: each calls the wrapped
\* object's method of its name when hasattr finds one.  on_unload is not
\* among them: DecoratedPlugin inherits Plugin.on_unload, whose body is
\* pass.
Forwarded == {"on_load", "on_enable", "on_disable"}

\* The methods of the wrapped object that the plugin's method cb calls.
Wrapped(t, cb) ==
    IF Decorated(t) /\ cb \in Forwarded /\ cb \in Wraps[t]
    THEN <<cb>> ELSE <<>>

\* Whether the plugin's method cb can raise: any method of a handwritten
\* subclass can; of a decorated type, the constructor is Plugin.__init__
\* and a callback runs code only when it calls the wrapped object.
CanRaise(t, cb) == ~Decorated(t) \/ Wrapped(t, cb) # <<>>

\* info.name of each plugin type.
InfoName(t) ==
    IF t = "TA" THEN "a"
    ELSE IF Decorated(t)
         THEN CHOOSE n \in DecoratedNames : Source[n] = t
         ELSE "c"

\* The register_hook calls each type makes in its on_load, in order (the
\* on_load of a wrapped object registers one hook).
OnLoadHooks(t) ==
    IF Decorated(t)
    THEN IF Wrapped(t, "on_load") # <<>>
         THEN << [name |-> "y", handler |-> "add_one", priority |-> NORMAL,
                  async_handler |-> FALSE] >>
         ELSE <<>>
    ELSE IF t = "TA"
    THEN << [name |-> "x", handler |-> "add_one", priority |-> NORMAL,
             async_handler |-> TRUE] >>
    ELSE << [name |-> "x", handler |-> "double", priority |-> HIGH,
             async_handler |-> TRUE],
            [name |-> "y", handler |-> "fails", priority |-> NORMAL,
             async_handler |-> FALSE] >>

\* The registrations that callers of HookManager.register make directly.
Handlers ==
    { [name |-> "x", handler |-> "add_one", plugin_name |-> "a",
       priority |-> NORMAL, async_handler |-> TRUE],
      [name |-> "x", handler |-> "fails", plugin_name |-> "c",
       priority |-> NORMAL, async_handler |-> FALSE],
      [name |-> "x", handler |-> "double", plugin_name |-> "c",
       priority |-> HIGH, async_handler |-> TRUE],
      [name |-> "y", handler |-> "add_one", plugin_name |-> "a",
       priority |-> HIGH, async_handler |-> FALSE],
      [name |-> "y", handler |-> "fails", plugin_name |-> "c",
       priority |-> NORMAL, async_handler |-> TRUE] }

\* The handlers: the two of the tests, and one that raises.
HandlerRaises(handler) == handler = "fails"

\* What handler returns for the value v, when it does not raise.
HandlerReturns(handler, v) == IF handler = "double" THEN v * 2 ELSE v + 1

\* The values callers pass to execute and execute_filter.
Args == {5, 10}

\* What PluginLoader.discover can return: the names of the modules and
\* packages in the plugin directories, in directory order ("c" is a file
\* without a plugin type; two directories can hold one name).
Discoverable ==
    {<<>>} \cup {<<n>> : n \in Names} \cup {<<n, k>> : n, k \in Names}

\* The configurations callers store; "{}" is the empty mapping.
Configs == {"k1", "k2"}

VARIABLES
    hooks,      \* HookManager.hooks: hook name -> list of registrations
    loaded,     \* PluginLoader._loaded: module name -> plugin type
    plugins,    \* PluginRegistry.plugins: info.name -> instance
    configs,    \* PluginManager._configs: name -> configuration
    nextReg,    \* identity of the next HookRegistration object
    nextInst,   \* identity of the next Plugin object
    dispatch,   \* the execute / execute_filter call in flight
    last        \* the last operation called and what it returned

vars == <<hooks, loaded, plugins, configs, nextReg, nextInst, dispatch, last>>

(* ------------------------------------------------------------------ *)
(* Dictionaries and lists                                             *)
(* ------------------------------------------------------------------ *)
EmptyDict == [k \in {} |-> 0]

\* d[k] = v
Put(d, k, v) == [x \in DOMAIN d \cup {k} |-> IF x = k THEN v ELSE d[x]]

\* d.pop(k, None) / del d[k]
Pop(d, k) == [x \in DOMAIN d \ {k} |-> d[x]]

\* The identities of the registrations of a list, in list order.
Ids(lst) == [i \in 1..Len(lst) |-> lst[i].id]

(* ------------------------------------------------------------------ *)
(* HookRegistration                                                   *)
(* ------------------------------------------------------------------ *)
\* id is the identity of the object (ids grow in the order of creation);
\* inst is the identity of the Plugin object that created it in its
\* on_load, 0 for a registration made by a direct HookManager.register.
HookRegistration(id, name, handler, plugin_name, inst, priority, async_handler) ==
    [id |-> id, name |-> name, handler |-> handler, plugin_name |-> plugin_name,
     inst |-> inst, priority |-> priority, async_handler |-> async_handler]

(* ------------------------------------------------------------------ *)
(* list.sort(key=lambda h: h.priority.value): a stable sort           *)
(* ------------------------------------------------------------------ *)
\* A sort that is not stable: r goes in front of the elements of its own key.
InsertBeforeEqualKeys(s, r) ==
    LET k == Cardinality({i \in 1..Len(s) : s[i].priority < r.priority})
    IN  SubSeq(s, 1, k) \o <<r>> \o SubSeq(s, k + 1, Len(s))

\* r placed into the sorted list s behind every element whose key is not
\* greater than r's key.
InsertByKey(s, r) ==
    LET k == Cardinality({i \in 1..Len(s) : s[i].priority <= r.priority})
    IN  SubSeq(s, 1, k) \o <<r>> \o SubSeq(s, k + 1, Len(s))

RECURSIVE SortByPriority(_)
SortByPriority(s) ==
    IF s = <<>> THEN <<>>
    ELSE InsertByKey(SortByPriority(SubSeq(s, 1, Len(s) - 1)), s[Len(s)])

(* ------------------------------------------------------------------ *)
(* The dispatch in flight                                             *)
(* ------------------------------------------------------------------ *)
\* status: "idle" (no call), "awaiting" (suspended in the asynchronous
\*         handler called[Len(called)]), "done" (the loop has ended, the
\*         call has not yet returned to its caller);
\* live:   TRUE when the list the loop iterates is the list object that
\*         HookManager.hooks[hook] holds; FALSE when it is another object,
\*         whose elements are lst;
\* idx:    the position of the list iterator (elements consumed);
\* called: the registrations whose handlers were invoked, in order;
\* value:  the argument of execute; the current value of execute_filter;
\* results: the results list of execute; for execute_filter (history) what
\*         each handler that has ended returned, None for one that raised;
\* arg, received: (history) the value the caller passed, and the value
\*         each invoked handler was passed;
\* views:  (history) every value the hook's list had, as lists of ids,
\*         from the start of the call to the end of its loop;
\* unregistered: (history) the owners HookManager.unregister was called
\*         for while the call was suspended.
Idle ==
    [status |-> "idle", kind |-> "none", hook |-> "none", live |-> FALSE,
     lst |-> <<>>, idx |-> 0, called |-> <<>>, value |-> 0, results |-> <<>>,
     arg |-> 0, received |-> <<>>, views |-> {}, unregistered |-> {}]

\* self.hooks.get(name, [])
HooksGet(h, name) == IF name \in DOMAIN h THEN h[name] ELSE <<>>

\* The list a suspended dispatch d iterates, h being HookManager.hooks.
IterList(d, h) == IF d.live THEN h[d.hook] ELSE d.lst

\* What a suspended dispatch d becomes when HookManager.hooks changes from
\* h to h2.  register changes the list object in place (gone = {});
\* unregister(p) puts new list objects into the dictionary (gone = {p}),
\* and the loop keeps the object it started with.
Observe(d, h, h2, gone) ==
    IF d.status # "awaiting" THEN d
    ELSE [d EXCEPT !.live = d.live /\ gone = {},
                   !.lst = IF d.live /\ gone # {} THEN h[d.hook] ELSE d.lst,
                   !.views = d.views \cup {Ids(HooksGet(h2, d.hook))},
                   !.unregistered = d.unregistered \cup gone]

\* HandlerEnds with a raising handler contributing nothing to the results.
HandlerEndsDroppingRaised(d, registration) ==
    LET raised == HandlerRaises(registration.handler)
        result == HandlerReturns(registration.handler, d.value)
    IN  [d EXCEPT !.results = IF raised THEN @ ELSE Append(@, result),
                  !.value = IF d.kind = "execute_filter" /\ ~raised
                            THEN result ELSE @]

\* HandlerEnds with a raising handler resetting the value of the filter.
HandlerEndsClearingValue(d, registration) ==
    LET raised == HandlerRaises(registration.handler)
        result == IF raised THEN None
                  ELSE HandlerReturns(registration.handler, d.value)
    IN  [d EXCEPT !.results = Append(@, result),
                  !.value = IF d.kind = "execute_filter" THEN result ELSE @]

\* The handler of registration ends, in the call d: execute appends its
\* result, or None when it raised; execute_filter takes its result as the
\* new value, and keeps the value when it raised.
HandlerEnds(d, registration) ==
    LET raised == HandlerRaises(registration.handler)
        result == IF raised THEN None
                  ELSE HandlerReturns(registration.handler, d.value)
    IN  [d EXCEPT !.results = Append(@, result),
                  !.value = IF d.kind = "execute_filter" /\ ~raised
                            THEN result ELSE @]

\* The handler of registration is invoked, in the call d.
HandlerInvoked(d, registration) ==
    [d EXCEPT !.idx = @ + 1,
              !.called = Append(@, registration),
              !.received = Append(@, d.value)]

\* A loop that starts an asynchronous handler and goes on to the next
\* handler without awaiting it.
RECURSIVE RunLoopWithoutAwait(_, _)
RunLoopWithoutAwait(lst, d) ==
    IF d.idx >= Len(lst)
    THEN [d EXCEPT !.status = "done"]
    ELSE LET registration == lst[d.idx + 1]
         IN  IF registration.async_handler
             THEN RunLoopWithoutAwait(lst, HandlerInvoked(d, registration))
             ELSE RunLoopWithoutAwait(lst,
                        HandlerEnds(HandlerInvoked(d, registration),
                                    registration))

\* The for loop of execute / execute_filter, for the call d iterating lst:
\* handlers are invoked one after the other until an asynchronous one
\* suspends the call or the list is exhausted.
RECURSIVE RunLoop(_, _)
RunLoop(lst, d) ==
    IF d.idx >= Len(lst)
    THEN [d EXCEPT !.status = "done"]
    ELSE LET registration == lst[d.idx + 1]
         IN  IF registration.async_handler
             THEN [HandlerInvoked(d, registration) EXCEPT !.status = "awaiting"]
             ELSE RunLoop(lst, HandlerEnds(HandlerInvoked(d, registration),
                                           registration))

\* return results
ExecuteReturn(d) == d.results

\* FilterReturn with None for a value that no handler has handled.
FilterReturnNoneIfUnhandled(d) == IF d.called = <<>> THEN None ELSE d.value

\* return value
FilterReturn(d) == d.value

(* ------------------------------------------------------------------ *)
(* HookManager                                                        *)
(* ------------------------------------------------------------------ *)
\* HookManager.register: append to the hook's list, then sort it in place.
HookRegister(h, registration) ==
    Put(h, registration.name,
        SortByPriority(Append(HooksGet(h, registration.name), registration)))

\* An unregister that compares the hook's name, not its owner's, with
\* plugin_name.
HookUnregisterByHookName(h, plugin_name) ==
    [name \in DOMAIN h |->
        SelectSeq(h[name], LAMBDA r : r.name # plugin_name)]

\* HookManager.unregister: every list is replaced by a new list without
\* the registrations of plugin_name.
HookUnregister(h, plugin_name) ==
    [name \in DOMAIN h |->
        SelectSeq(h[name], LAMBDA r : r.plugin_name # plugin_name)]

RECURSIVE SumLen(_, _)
SumLen(h, names) ==
    IF names = {} THEN 0
    ELSE LET n == CHOOSE x \in names : TRUE
         IN  Len(h[n]) + SumLen(h, names \ {n})

\* A count of the hook names that lost a registration.
UnregisterCountOfLists(h, plugin_name) ==
    Cardinality({name \in DOMAIN h :
                    \E k \in 1..Len(h[name]) :
                        h[name][k].plugin_name = plugin_name})

\* The count HookManager.unregister returns.
UnregisterCount(h, plugin_name) ==
    SumLen(h, DOMAIN h) - SumLen(HookUnregister(h, plugin_name), DOMAIN h)

(* ------------------------------------------------------------------ *)
(* The manager's objects as one value                                 *)
(* ------------------------------------------------------------------ *)
\* The operations below are functions from such a value to the set of
\* outcomes the operation can have (one per way its callbacks can behave),
\* so that an operation that calls another (unload calls disable, reload
\* calls unload and load) is the composition the code is.
\* (history) Of a load_all: what discover returned, and the loads
\* attempted with what each returned (ok: an instance).
NoBatch == [discovered |-> <<>>, attempts |-> <<>>]

Manager ==
    [hooks |-> hooks, loaded |-> loaded, plugins |-> plugins,
     configs |-> configs, nextReg |-> nextReg, nextInst |-> nextInst, dispatch |-> dispatch,
     resolved |-> FALSE, wrapped |-> <<>>, batch |-> NoBatch]

\* await plugin.cb(), for a plugin of type t: (history) the methods of a
\* wrapped object that it calls.
Await(m, t, cb) == [m EXCEPT !.wrapped = @ \o Wrapped(t, cb)]

\* An outcome: the objects afterwards, whether the call reported success,
\* the plugin methods it invoked in order, those of them that raised, and
\* the instance (or count) it returned (0: none).
Outcome(m, ok, cbs, raised, ret) ==
    [m |-> m, ok |-> ok, cbs |-> cbs, raised |-> raised, ret |-> ret]

\* self.hooks.register(hook), seen by the dispatch in flight as well.
MRegister(m, registration) ==
    [m EXCEPT !.hooks = HookRegister(m.hooks, registration),
              !.dispatch = Observe(m.dispatch, m.hooks,
                                   HookRegister(m.hooks, registration), {})]

\* self.hooks.unregister(name), seen by the dispatch in flight as well.
MUnregister(m, plugin_name) ==
    [m EXCEPT !.hooks = HookUnregister(m.hooks, plugin_name),
              !.dispatch = Observe(m.dispatch, m.hooks,
                                   HookUnregister(m.hooks, plugin_name),
                                   {plugin_name})]

\* for hook in plugin.get_hooks(): self.hooks.register(hook)
RECURSIVE RegisterHooks(_, _, _, _)
RegisterHooks(m, decls, plugin_name, inst) ==
    IF decls = <<>> THEN m
    ELSE RegisterHooks(
            MRegister([m EXCEPT !.nextReg = @ + 1],
                      HookRegistration(m.nextReg, Head(decls).name,
                                       Head(decls).handler, plugin_name,
                                       inst, Head(decls).priority,
                                       Head(decls).async_handler)),
            Tail(decls), plugin_name, inst)

(* ------------------------------------------------------------------ *)
(* PluginLoader                                                       *)
(* ------------------------------------------------------------------ *)
\* PluginLoader.load: the cached type, else the type the source resolves
\* (which is then cached), else "none".
LoaderLoad(ld, name) ==
    IF name \in DOMAIN ld
    THEN [cls |-> ld[name], loaded |-> ld, resolved |-> FALSE]
    ELSE IF name \in DOMAIN Source
         THEN [cls |-> Source[name], loaded |-> Put(ld, name, Source[name]),
               resolved |-> TRUE]
         ELSE [cls |-> "none", loaded |-> ld, resolved |-> TRUE]

\* An unload that leaves the type in the cache.
LoaderUnloadKeepingType(ld, name) == ld

\* PluginLoader.unload
LoaderUnload(ld, name) == Pop(ld, name)

(* ------------------------------------------------------------------ *)
(* PluginRegistry                                                     *)
(* ------------------------------------------------------------------ *)
\* PluginRegistry.register: the key is the type's info.name.
RegistryRegister(ps, plugin) == Put(ps, InfoName(plugin.type), plugin)

\* PluginRegistry.unregister
RegistryUnregister(ps, name) == Pop(ps, name)

(* ------------------------------------------------------------------ *)
(* PluginManager                                                      *)
(* ------------------------------------------------------------------ *)
\* A load that registers each hook at the moment on_load asks for it: the
\* hooks are in the registry when on_load raises after them.
LoadAbortedKeepingHooks(m, t, cbs) ==
    Outcome(IF cbs[Len(cbs)] = "on_load"
            THEN RegisterHooks(m, OnLoadHooks(t), InfoName(t), m.nextInst)
            ELSE m,
            FALSE, cbs, <<cbs[Len(cbs)]>>, 0)

\* What load leaves when the constructor (cbs = <<"__init__">>) or on_load
\* (cbs = <<"__init__", "on_load">>) of type t raised: the except clause
\* returns None.
LoadAborted(m, t, cbs) == Outcome(m, FALSE, cbs, <<cbs[Len(cbs)]>>, 0)

\* A load that registers the first of the harvested hooks only.
LoadCompletedFirstHookOnly(m, t, context) ==
    LET plugin == [id |-> m.nextInst, type |-> t, state |-> PS_LOADED,
                   context |-> context]
        m1 == RegisterHooks(m, SubSeq(OnLoadHooks(t), 1, 1), InfoName(t),
                            plugin.id)
    IN  Outcome([m1 EXCEPT !.plugins = RegistryRegister(@, plugin),
                           !.nextInst = @ + 1],
                TRUE, <<"__init__", "on_load">>, <<>>, plugin.id)

\* The part of load after a successful on_load: the hooks are registered,
\* then the instance.
LoadCompleted(m, t, context) ==
    LET plugin == [id |-> m.nextInst, type |-> t, state |-> PS_LOADED,
                   context |-> context]
        m1 == RegisterHooks(m, OnLoadHooks(t), InfoName(t), plugin.id)
    IN  Outcome([m1 EXCEPT !.plugins = RegistryRegister(@, plugin),
                           !.nextInst = @ + 1],
                TRUE, <<"__init__", "on_load">>, <<>>, plugin.id)

\* Whether the model has identities left for a load of type t to succeed.
Room(m, t) ==
    /\ m.nextInst <= MaxInst
    /\ m.nextReg + Len(OnLoadHooks(t)) - 1 <= MaxRegs

\* PluginContext(plugin_name=name, config=self._configs.get(name, {}))
PluginContext(m, name) ==
    [plugin_name |-> name,
     config |-> IF name \in DOMAIN m.configs THEN m.configs[name] ELSE "{}"]

\* A set_config that hands the configuration to the loaded instance too.
SetConfigOutcomesUpdatingInstance(m, plugin_name, config) ==
    {Outcome([m EXCEPT !.configs = Put(@, plugin_name, config),
                       !.plugins = [n \in DOMAIN @ |->
                                        IF n = plugin_name
                                        THEN [@[n] EXCEPT !.context.config = config]
                                        ELSE @[n]]],
             TRUE, <<>>, <<>>, 0)}

\* PluginManager.set_config
SetConfigOutcomes(m, plugin_name, config) ==
    {Outcome([m EXCEPT !.configs = Put(@, plugin_name, config)],
             TRUE, <<>>, <<>>, 0)}

\* PluginManager.load
LoadOutcomes(m, name) ==
    LET r == LoaderLoad(m.loaded, name)
        m1 == [m EXCEPT !.loaded = r.loaded, !.resolved = r.resolved]
        m2 == Await(m1, r.cls, "on_load")
    IN  IF r.cls = "none" THEN {Outcome(m1, FALSE, <<>>, <<>>, 0)}
        ELSE (IF CanRaise(r.cls, "__init__")
              THEN {LoadAborted(m1, r.cls, <<"__init__">>)} ELSE {})
             \cup (IF CanRaise(r.cls, "on_load")
                   THEN {LoadAborted(m2, r.cls, <<"__init__", "on_load">>)}
                   ELSE {})
             \cup (IF Room(m2, r.cls) THEN {LoadCompleted(m2, r.cls, PluginContext(m, name))}
                   ELSE {})

SetState(m, name, state) == [m EXCEPT !.plugins[name].state = state]

\* An enable that does not look at the state before it calls on_enable.
EnableOutcomesWithoutShortcut(m, name) ==
    IF name \notin DOMAIN m.plugins THEN {Outcome(m, FALSE, <<>>, <<>>, 0)}
    ELSE {Outcome(SetState(m, name, PS_ENABLED), TRUE, <<"on_enable">>, <<>>, 0),
          Outcome(SetState(m, name, PS_ERROR), FALSE, <<"on_enable">>,
                  <<"on_enable">>, 0)}

\* An enable that leaves the state as it was when on_enable raises.
EnableOutcomesKeepingState(m, name) ==
    IF name \notin DOMAIN m.plugins THEN {Outcome(m, FALSE, <<>>, <<>>, 0)}
    ELSE IF m.plugins[name].state = PS_ENABLED THEN {Outcome(m, TRUE, <<>>, <<>>, 0)}
    ELSE {Outcome(SetState(m, name, PS_ENABLED), TRUE, <<"on_enable">>, <<>>, 0),
          Outcome(m, FALSE, <<"on_enable">>, <<"on_enable">>, 0)}

\* PluginManager.enable
EnableOutcomes(m, name) ==
    IF name \notin DOMAIN m.plugins THEN {Outcome(m, FALSE, <<>>, <<>>, 0)}
    ELSE IF m.plugins[name].state = PS_ENABLED THEN {Outcome(m, TRUE, <<>>, <<>>, 0)}
    ELSE LET t == m.plugins[name].type
             m1 == Await(m, t, "on_enable")
         IN  {Outcome(SetState(m1, name, PS_ENABLED), TRUE, <<"on_enable">>,
                      <<>>, 0)}
             \cup (IF CanRaise(t, "on_enable")
                   THEN {Outcome(SetState(m1, name, PS_ERROR), FALSE,
                                 <<"on_enable">>, <<"on_enable">>, 0)}
                   ELSE {})

\* A disable that sets the state to error when on_disable raises.
DisableOutcomesSettingError(m, name) ==
    IF name \notin DOMAIN m.plugins THEN {Outcome(m, FALSE, <<>>, <<>>, 0)}
    ELSE IF m.plugins[name].state = PS_DISABLED THEN {Outcome(m, TRUE, <<>>, <<>>, 0)}
    ELSE {Outcome(SetState(m, name, PS_DISABLED), TRUE, <<"on_disable">>, <<>>, 0),
          Outcome(SetState(m, name, PS_ERROR), FALSE, <<"on_disable">>,
                  <<"on_disable">>, 0)}

\* A disable that takes the plugin's handlers out of the hook registry.
DisableOutcomesUnregistering(m, name) ==
    IF name \notin DOMAIN m.plugins THEN {Outcome(m, FALSE, <<>>, <<>>, 0)}
    ELSE IF m.plugins[name].state = PS_DISABLED THEN {Outcome(m, TRUE, <<>>, <<>>, 0)}
    ELSE {Outcome(SetState(MUnregister(m, name), name, PS_DISABLED), TRUE,
                  <<"on_disable">>, <<>>, 0),
          Outcome(m, FALSE, <<"on_disable">>, <<"on_disable">>, 0)}

\* PluginManager.disable
DisableOutcomes(m, name) ==
    IF name \notin DOMAIN m.plugins THEN {Outcome(m, FALSE, <<>>, <<>>, 0)}
    ELSE IF m.plugins[name].state = PS_DISABLED THEN {Outcome(m, TRUE, <<>>, <<>>, 0)}
    ELSE LET t == m.plugins[name].type
             m1 == Await(m, t, "on_disable")
         IN  {Outcome(SetState(m1, name, PS_DISABLED), TRUE, <<"on_disable">>,
                      <<>>, 0)}
             \cup (IF CanRaise(t, "on_disable")
                   THEN {Outcome(m1, FALSE, <<"on_disable">>,
                                 <<"on_disable">>, 0)}
                   ELSE {})

\* The removals of a successful unload.
UnloadCompleted(m, name) ==
    LET m1 == MUnregister(m, name)
    IN  [m1 EXCEPT !.plugins = RegistryUnregister(@, name),
                   !.loaded = LoaderUnload(@, name)]

\* A "disable first" for every plugin that is not in state disabled.
DisableFirstUnlessDisabled(m, name) ==
    IF m.plugins[name].state # PS_DISABLED
    THEN DisableOutcomes(m, name)
    ELSE {Outcome(m, TRUE, <<>>, <<>>, 0)}

\* "Disable first": the result of disable is not looked at.
DisableFirst(m, name) ==
    IF m.plugins[name].state = PS_ENABLED
    THEN DisableOutcomes(m, name)
    ELSE {Outcome(m, TRUE, <<>>, <<>>, 0)}

\* PluginManager.unload
UnloadOutcomes(m, name) ==
    IF name \notin DOMAIN m.plugins THEN {Outcome(m, FALSE, <<>>, <<>>, 0)}
    ELSE LET t == m.plugins[name].type
         IN  UNION {
                LET m1 == Await(d.m, t, "on_unload")
                IN  {Outcome(UnloadCompleted(m1, name), TRUE,
                             d.cbs \o <<"on_unload">>, d.raised, 0)}
                    \cup (IF CanRaise(t, "on_unload")
                          THEN {Outcome(m1, FALSE, d.cbs \o <<"on_unload">>,
                                        d.raised \o <<"on_unload">>, 0)}
                          ELSE {})
                : d \in DisableFirst(m, name)}

\* PluginManager.reload
ReloadOutcomes(m, name) ==
    LET first == IF name \in DOMAIN m.plugins
                 THEN UnloadOutcomes(m, name)
                 ELSE {Outcome(m, TRUE, <<>>, <<>>, 0)}
    IN  UNION {
            {Outcome(l.m, l.ok, u.cbs \o l.cbs, u.raised \o l.raised, l.ret)
                : l \in LoadOutcomes(u.m, name)}
            : u \in first}

\* (history) load(name) was attempted and returned an instance, or not.
Attempted(m, name, ok) ==
    [m EXCEPT !.batch.attempts = Append(@, [name |-> name, ok |-> ok])]

\* A load_all that ends the batch at the first load that fails.
RECURSIVE LoadAllOutcomesUntilFailure(_, _)
LoadAllOutcomesUntilFailure(m, names) ==
    IF names = <<>> THEN {Outcome(m, TRUE, <<>>, <<>>, 0)}
    ELSE UNION {
            IF l.ok
            THEN {Outcome(rest.m, TRUE, l.cbs \o rest.cbs,
                          l.raised \o rest.raised, 1 + rest.ret)
                    : rest \in LoadAllOutcomesUntilFailure(
                                  Attempted(l.m, Head(names), l.ok),
                                  Tail(names))}
            ELSE {Outcome(Attempted(l.m, Head(names), l.ok), TRUE, l.cbs,
                          l.raised, 0)}
            : l \in LoadOutcomes(m, Head(names))}

\* PluginManager.load_all, names being what discover has returned: the
\* loads one after the other, ret the count of those that returned an
\* instance.
RECURSIVE LoadAllOutcomes(_, _)
LoadAllOutcomes(m, names) ==
    IF names = <<>> THEN {Outcome(m, TRUE, <<>>, <<>>, 0)}
    ELSE UNION {
            {Outcome(rest.m, TRUE, l.cbs \o rest.cbs,
                     l.raised \o rest.raised,
                     (IF l.ok THEN 1 ELSE 0) + rest.ret)
                : rest \in LoadAllOutcomes(Attempted(l.m, Head(names), l.ok),
                                          Tail(names))}
            : l \in LoadOutcomes(m, Head(names))}

(* ------------------------------------------------------------------ *)
(* Actions                                                            *)
(* ------------------------------------------------------------------ *)
\* The positions of lst that hold a registration owned by owner.
Owned(lst, owner) == {k \in 1..Len(lst) : lst[k].plugin_name = owner}

\* What owner has registered in h: for each hook name and priority, how
\* many registrations (those with none are left out).
Profile(h, owner) ==
    {t \in {<<name, p, Cardinality({k \in Owned(h[name], owner) :
                                       h[name][k].priority = p})>> :
                name \in DOMAIN h, p \in Priorities} : t[3] > 0}

\* (history) The call is not part of a load, unload, load sequence.
NoTrip == [calls |-> 0, first |-> {}]

\* (history) How far the call op(name) with outcome o takes a sequence
\* load(name), unload(name), load(name) of consecutive calls in which the
\* loads return an instance and no callback raises: calls is 2 after the
\* unload and 3 after the second load, and first is what name owned after
\* the first load.
TripAfter(op, name, o) ==
    IF /\ op = "unload" /\ o.raised = <<>>
       /\ last.op = "load" /\ last.ok /\ last.name = name
    THEN [calls |-> 2, first |-> Profile(hooks, name)]
    ELSE IF /\ op = "load" /\ o.ok
            /\ last.trip.calls = 2 /\ last.name = name
         THEN [calls |-> 3, first |-> last.trip.first]
         ELSE NoTrip

Call(op, name, ok, cbs, raised, ret, resolved, trip, wrapped, batch) ==
    [op |-> op, name |-> name, ok |-> ok, cbs |-> cbs, raised |-> raised,
     ret |-> ret, resolved |-> resolved, trip |-> trip, wrapped |-> wrapped,
     batch |-> batch]

\* The step that a call op(name) with outcome o is.
Becomes(op, name, o) ==
    /\ hooks' = o.m.hooks
    /\ loaded' = o.m.loaded
    /\ plugins' = o.m.plugins
    /\ configs' = o.m.configs
    /\ nextReg' = o.m.nextReg
    /\ nextInst' = o.m.nextInst
    /\ dispatch' = o.m.dispatch
    /\ last' = Call(op, name, o.ok, o.cbs, o.raised, o.ret, o.m.resolved,
                    TripAfter(op, name, o), o.m.wrapped, o.m.batch)

Init ==
    /\ hooks = EmptyDict
    /\ loaded = EmptyDict
    /\ plugins = EmptyDict
    /\ configs = EmptyDict
    /\ nextReg = 1
    /\ nextInst = 1
    /\ dispatch = Idle
    /\ last = Call("none", "none", TRUE, <<>>, <<>>, 0, FALSE,
                  NoTrip, <<>>, NoBatch)

Load(name) == \E o \in LoadOutcomes(Manager, name) : Becomes("load", name, o)

Enable(name) == \E o \in EnableOutcomes(Manager, name) : Becomes("enable", name, o)

Disable(name) == \E o \in DisableOutcomes(Manager, name) : Becomes("disable", name, o)

Unload(name) == \E o \in UnloadOutcomes(Manager, name) : Becomes("unload", name, o)

Reload(name) == \E o \in ReloadOutcomes(Manager, name) : Becomes("reload", name, o)

SetConfig(plugin_name, config) ==
    \E o \in SetConfigOutcomes(Manager, plugin_name, config) :
        Becomes("set_config", plugin_name, o)

\* load_all, discover returning names.
LoadAll(names) ==
    \E o \in LoadAllOutcomes([Manager EXCEPT !.batch.discovered = names],
                             names) :
        Becomes("load_all", "*", o)

\* A direct HookManager.register of a new registration.
Register(name, handler, plugin_name, priority, async_handler) ==
    /\ nextReg <= MaxRegs
    /\ \E o \in {Outcome(MRegister([Manager EXCEPT !.nextReg = @ + 1],
                                   HookRegistration(nextReg, name, handler,
                                                    plugin_name, 0, priority,
                                                    async_handler)),
                         TRUE, <<>>, <<>>, 0)} :
            Becomes("register", plugin_name, o)

\* A direct HookManager.unregister; ret is the count it returns.
Unregister(plugin_name) ==
    \E o \in {Outcome(MUnregister(Manager, plugin_name), TRUE, <<>>, <<>>,
                      UnregisterCount(hooks, plugin_name))} :
        Becomes("unregister", plugin_name, o)

\* execute / execute_filter is called and runs to its first suspension.
DispatchBegin(kind, name, value) ==
    /\ dispatch.status = "idle"
    /\ LET live == name \in DOMAIN hooks
           lst == HooksGet(hooks, name)
       IN  dispatch' = RunLoop(lst,
                [Idle EXCEPT !.kind = kind, !.hook = name, !.live = live,
                             !.lst = IF live THEN <<>> ELSE lst,
                             !.value = value, !.arg = value,
                             !.views = {Ids(lst)}])
    /\ last' = Call(kind, name, TRUE, <<>>, <<>>, 0, FALSE,
                  NoTrip, <<>>, NoBatch)
    /\ UNCHANGED <<hooks, loaded, plugins, configs, nextReg, nextInst>>

\* The awaited handler ends and the loop goes on to its next suspension.
DispatchResume ==
    /\ dispatch.status = "awaiting"
    /\ dispatch' = RunLoop(IterList(dispatch, hooks),
                           HandlerEnds(dispatch,
                                       dispatch.called[Len(dispatch.called)]))
    /\ last' = Call(dispatch.kind, dispatch.hook, TRUE, <<>>, <<>>, 0, FALSE,
                  NoTrip, <<>>, NoBatch)
    /\ UNCHANGED <<hooks, loaded, plugins, configs, nextReg, nextInst>>

\* The call returns to its caller.
DispatchReturn ==
    /\ dispatch.status = "done"
    /\ dispatch' = Idle
    /\ last' = Call(dispatch.kind, dispatch.hook, TRUE, <<>>, <<>>, 0, FALSE,
                  NoTrip, <<>>, NoBatch)
    /\ UNCHANGED <<hooks, loaded, plugins, configs, nextReg, nextInst>>

DispatchStep ==
    \/ \E kind \in {"execute", "execute_filter"}, name \in HookNames,
          value \in Args :
            DispatchBegin(kind, name, value)
    \/ DispatchResume
    \/ DispatchReturn

\* The value the callers of PluginManager.execute_hook and filter pass
\* (the lifecycle does not depend on it).
ManagerArgs == {5}

\* PluginManager.execute_hook / filter: the calls of HookManager.execute /
\* execute_filter that the manager's callers make.
ManagerDispatchStep ==
    \/ \E kind \in {"execute", "execute_filter"}, name \in HookNames,
          value \in ManagerArgs :
            DispatchBegin(kind, name, value)
    \/ DispatchResume
    \/ DispatchReturn

\* The PluginManager driven by its callers.
Next ==
    \/ \E name \in Names : Load(name)
    \/ \E name \in Names : Enable(name)
    \/ \E name \in Names : Disable(name)
    \/ \E name \in Names : Unload(name)
    \/ \E name \in Names : Reload(name)
    \/ ManagerDispatchStep

Spec == Init /\ [][Next]_vars

\* The HookManager alone, driven by direct calls.
NextHooks ==
    \/ \E r \in Handlers :
            Register(r.name, r.handler, r.plugin_name, r.priority,
                     r.async_handler)
    \/ \E plugin_name \in {"a", "c"} : Unregister(plugin_name)
    \/ DispatchStep

SpecHooks == Init /\ [][NextHooks]_vars

\* The lifecycle of the plugins whose type the decorator builds.
NextDecorated ==
    \E name \in DecoratedNames :
        \/ Load(name)
        \/ Enable(name)
        \/ Disable(name)
        \/ Unload(name)
        \/ Reload(name)

SpecDecorated == Init /\ [][NextDecorated]_vars

\* Batches of loads, and the unloads between them.
NextBatch ==
    \/ \E names \in Discoverable : LoadAll(names)
    \/ \E name \in Names : Unload(name)

SpecBatch == Init /\ [][NextBatch]_vars

\* Configurations stored between loads and unloads.
NextConfig ==
    \E name \in Names :
        \/ \E config \in Configs : SetConfig(name, config)
        \/ Load(name)
        \/ Unload(name)

SpecConfig == Init /\ [][NextConfig]_vars

(* ------------------------------------------------------------------ *)
(* Properties                                                         *)
(* ------------------------------------------------------------------ *)
\* The registration x stands before y in the order the registry keeps:
\* lower priority value first, and among equal priorities the one
\* registered first.
Before(x, y) ==
    \/ x.priority < y.priority
    \/ x.priority = y.priority /\ x.id < y.id

\* C1: after any sequence of HookManager.register and unregister calls,
\* every hook's list is in non-decreasing order of priority value, and
\* registrations of equal priority stand in the order of their registration.
C1_SortedAndStable ==
    \A name \in DOMAIN hooks :
        \A i, j \in 1..Len(hooks[name]) :
            i < j => Before(hooks[name][i], hooks[name][j])

\* C1, witness: an unregister has removed the second of three registrations,
\* and the two that remain in the list have one priority.
C1_Witness ==
    /\ last.op = "unregister" /\ last.ret > 0
    /\ \E name \in DOMAIN hooks :
            /\ Len(hooks[name]) = 2
            /\ hooks[name][1].priority = hooks[name][2].priority
            /\ hooks[name][1].id = 1 /\ hooks[name][2].id = 3

\* The instance that the catalog holds under name n before and after a step
\* is the same object.
SameInstance(n) ==
    /\ n \in DOMAIN plugins /\ n \in DOMAIN plugins'
    /\ plugins'[n].id = plugins[n].id

\* C2: a plugin enters state enabled only from loaded or disabled, and
\* enters state disabled only from enabled.
C2_EnabledDisabledEnteredFrom ==
    [][\A n \in Names :
        SameInstance(n) /\ plugins'[n].state # plugins[n].state =>
            /\ plugins'[n].state = PS_ENABLED =>
                    plugins[n].state \in {PS_LOADED, PS_DISABLED}
            /\ plugins'[n].state = PS_DISABLED =>
                    plugins[n].state = PS_ENABLED]_vars

\* C3: once a plugin instance is in state error it stays in state error,
\* whatever is called (enable and disable included); a plugin of that name
\* in another state is another instance, made by a fresh load.
C3_ErrorIsFinal ==
    [][\A n \in Names :
        SameInstance(n) /\ plugins[n].state = PS_ERROR =>
            plugins'[n].state = PS_ERROR]_vars

\* C4: load(name) for a name that is in the catalog is a no-op: on_load is
\* not invoked, no registration is added, the catalog keeps its instance and
\* the call returns that instance.  (Stated of the calls that return an
\* instance, which the claim says all of them do.)
C4_LoadOfCataloguedNameIsNoOp ==
    [][last'.op = "load" /\ last'.ok /\ last'.name \in DOMAIN plugins =>
            /\ "on_load" \notin {last'.cbs[i] : i \in 1..Len(last'.cbs)}
            /\ hooks' = hooks
            /\ plugins' = plugins
            /\ last'.ret = plugins[last'.name].id]_vars

\* C5: a load that fails (the source does not resolve the name, so that no
\* constructor runs, or the constructor or on_load raises) returns the
\* failure indicator and leaves the catalog and the hook registry as they
\* were before the call.
C5_FailedLoadLeavesCatalogAndHooks ==
    [][last'.op = "load" /\ (last'.cbs = <<>> \/ last'.raised # <<>>) =>
            /\ ~last'.ok /\ last'.ret = 0
            /\ plugins' = plugins
            /\ hooks' = hooks]_vars

\* C5, witness: a load has failed because on_load raised, with a plugin in
\* the catalog and handlers in the registry.
C5_Witness ==
    /\ last.op = "load" /\ ~last.ok
    /\ last.raised = <<"on_load">>
    /\ DOMAIN plugins # {}
    /\ \E name \in DOMAIN hooks : hooks[name] # <<>>

\* C6: if a callback invoked by unload raises, unload reports failure and
\* removes nothing: the instance stays in the catalog, its hooks stay
\* registered and its cached type is not evicted.
C6_RaisingUnloadRemovesNothing ==
    [][last'.op = "unload" /\ last'.raised # <<>> =>
            /\ ~last'.ok
            /\ last'.name \in DOMAIN plugins'
            /\ hooks' = hooks
            /\ loaded' = loaded]_vars

\* C7: an unload that reports failure leaves the plugin's lifecycle state
\* equal to its state before the call.
C7_FailedUnloadKeepsState ==
    [][last'.op = "unload" /\ ~last'.ok /\ last'.name \in DOMAIN plugins =>
            /\ SameInstance(last'.name)
            /\ plugins'[last'.name].state = plugins[last'.name].state]_vars

\* C8: the handlers that one execute or execute_filter call invokes are the
\* hook's list as it stood at one instant of the call: no handler is invoked
\* twice or skipped because of a register or unregister that ran meanwhile.
C8_DispatchSeesOneList ==
    dispatch.status = "done" => Ids(dispatch.called) \in dispatch.views

\* The positions of dispatch'.called that the step has added.
Invoked == (Len(dispatch.called) + 1)..Len(dispatch'.called)

\* C9 as stated: once unload(name) has returned success (name is no
\* longer in the catalog: only a successful unload removes it, and only a
\* load puts it back), no handler owned by name is invoked, not even by a
\* call that was in progress when the unload ran.
C9_NoHandlerOfUnloadedPlugin ==
    [][\A k \in Invoked : dispatch'.called[k].plugin_name \in DOMAIN plugins]_vars

\* C9 as amended: a handler whose owner is not in the catalog is invoked
\* only by a call that was suspended when the owner's hooks were
\* unregistered; a call that starts after the unload invokes none.
C9_OnlyCallsInProgressInvokeUnloaded ==
    [][\A k \in Invoked :
        \/ dispatch'.called[k].plugin_name \in DOMAIN plugins
        \/ dispatch'.called[k].plugin_name \in dispatch.unregistered]_vars

\* C9, witness: the last step resumed a call that now awaits a handler
\* whose owner was unloaded while the call was suspended.
C9_Witness ==
    /\ last.op \in {"execute", "execute_filter"}
    /\ dispatch.status = "awaiting"
    /\ Len(dispatch.called) > 1
    /\ dispatch.called[Len(dispatch.called)].plugin_name \notin DOMAIN plugins
    /\ dispatch.called[Len(dispatch.called)].plugin_name \in dispatch.unregistered

\* C10: each registration in the hook registry was harvested from the
\* instance that the catalog holds under the registration's owner name.
C10_RegistrationsBelongToCatalog ==
    \A name \in DOMAIN hooks :
        \A i \in 1..Len(hooks[name]) :
            /\ hooks[name][i].plugin_name \in DOMAIN plugins
            /\ plugins[hooks[name][i].plugin_name].id = hooks[name][i].inst

\* The hook's list did not change while the call of dispatch ran.
ListUnchanged == Cardinality(dispatch.views) = 1

\* C11: execute(name, args) invokes every handler registered under name,
\* in list order, each with the caller's arguments, and returns one result
\* per handler in that order: what the handler returned, or None in the
\* position of a handler that raised; the handlers after a raising one
\* are still invoked and the call returns normally.
C11_ExecuteCollectsResults ==
    (dispatch.status = "done" /\ dispatch.kind = "execute") =>
        LET called == dispatch.called
            results == ExecuteReturn(dispatch)
        IN  /\ ListUnchanged => Ids(called) \in dispatch.views
            /\ Len(results) = Len(called)
            /\ \A k \in 1..Len(called) :
                  /\ dispatch.received[k] = dispatch.arg
                  /\ results[k] = IF HandlerRaises(called[k].handler)
                                  THEN None
                                  ELSE HandlerReturns(called[k].handler,
                                                      dispatch.arg)

\* An execute has returned three results, None for the raising handler in
\* the middle and values for the handlers before and after it.
C11_Witness ==
    /\ dispatch.status = "done" /\ dispatch.kind = "execute"
    /\ ListUnchanged
    /\ Len(dispatch.results) = 3
    /\ dispatch.results[1] # None
    /\ dispatch.results[2] = None
    /\ dispatch.results[3] # None

\* The value after the handlers of the registrations have been applied
\* to v in order, a raising handler leaving the value as it was.
RECURSIVE Threaded(_, _)
Threaded(v, registrations) ==
    IF registrations = <<>>
    THEN v
    ELSE Threaded(IF HandlerRaises(Head(registrations).handler)
                  THEN v
                  ELSE HandlerReturns(Head(registrations).handler, v),
                  Tail(registrations))

\* C12: execute_filter(name, value) calls the handlers in priority order,
\* each receiving the value the previous one returned (the first the
\* caller's value), and returns the last value; a handler that raises
\* leaves the value unchanged and the next handler receives it.
C12_FilterThreadsValue ==
    (dispatch.status = "done" /\ dispatch.kind = "execute_filter") =>
        LET called == dispatch.called
        IN  /\ ListUnchanged => Ids(called) \in dispatch.views
            /\ ListUnchanged =>
                  \A i, j \in 1..Len(called) :
                      i < j => called[i].priority <= called[j].priority
            /\ \A k \in 1..Len(called) :
                  dispatch.received[k] =
                      Threaded(dispatch.arg, SubSeq(called, 1, k - 1))
            /\ FilterReturn(dispatch) = Threaded(dispatch.arg, called)

\* A filter of 5 through double, a raising handler and add_one has
\* returned 11.
C12_Witness ==
    /\ dispatch.status = "done" /\ dispatch.kind = "execute_filter"
    /\ dispatch.arg = 5
    /\ Len(dispatch.called) = 3
    /\ dispatch.called[1].handler = "double"
    /\ dispatch.called[2].handler = "fails"
    /\ dispatch.called[3].handler = "add_one"
    /\ FilterReturn(dispatch) = 11

\* C13: called on a hook name that has no registration (never registered,
\* or emptied by unregister), execute returns the empty sequence and
\* execute_filter returns its input; the call returns at once and leaves
\* the registry as it was.
C13_NoRegistrationNoEffect ==
    [][(/\ dispatch.status = "idle"
        /\ dispatch'.status # "idle"
        /\ HooksGet(hooks, dispatch'.hook) = <<>>)
       => /\ dispatch'.status = "done"
          /\ dispatch'.called = <<>>
          /\ dispatch'.kind = "execute" => ExecuteReturn(dispatch') = <<>>
          /\ dispatch'.kind = "execute_filter" =>
                 FilterReturn(dispatch') = dispatch'.arg
          /\ hooks' = hooks]_vars

\* An execute_filter on a hook name emptied by unregister has returned.
C13_Witness ==
    /\ dispatch.status = "done" /\ dispatch.kind = "execute_filter"
    /\ dispatch.hook \in DOMAIN hooks
    /\ hooks[dispatch.hook] = <<>>
    /\ dispatch.views = {<<>>}
    /\ FilterReturn(dispatch) = dispatch.arg

\* C14: unregister(owner) removes, across all hook names, exactly the
\* registrations owned by owner, leaves every other registration in place
\* in its previous relative order (each moves up by the number of removed
\* registrations that were before it), and returns the number of
\* registrations it removed.
C14_UnregisterRemovesOwned ==
    [][last'.op = "unregister" =>
        LET owner == last'.name
        IN  /\ DOMAIN hooks' = DOMAIN hooks
            /\ \A name \in DOMAIN hooks :
                  LET old == hooks[name]
                      new == hooks'[name]
                  IN  /\ Owned(new, owner) = {}
                      /\ Len(new) = Len(old) - Cardinality(Owned(old, owner))
                      /\ \A k \in (1..Len(old)) \ Owned(old, owner) :
                            new[k - Cardinality({i \in Owned(old, owner) :
                                                    i < k})] = old[k]
            /\ last'.ret =
                  Cardinality(UNION {{hooks[name][k].id :
                                         k \in Owned(hooks[name], owner)} :
                                     name \in DOMAIN hooks})]_vars

\* An unregister has removed two registrations and returned 2, and a hook
\* name still has the registration of another owner.
C14_Witness ==
    /\ last.op = "unregister" /\ last.ret = 2
    /\ nextReg = 4
    /\ \E name \in DOMAIN hooks :
            /\ Len(hooks[name]) = 1
            /\ hooks[name][1].plugin_name # last.name

\* C15: enable on a plugin already in state enabled, and disable on a
\* plugin already in state disabled, return success, leave the state (and
\* everything else) unchanged and invoke no callback.
C15_EnableDisableIdempotent ==
    [][(\/ /\ last'.op = "enable"
           /\ last'.name \in DOMAIN plugins
           /\ plugins[last'.name].state = PS_ENABLED
        \/ /\ last'.op = "disable"
           /\ last'.name \in DOMAIN plugins
           /\ plugins[last'.name].state = PS_DISABLED)
       => /\ last'.ok
          /\ last'.cbs = <<>>
          /\ plugins' = plugins
          /\ hooks' = hooks]_vars

\* An enable of an enabled plugin has returned success without a callback.
C15_Witness ==
    /\ last.op = "enable" /\ last.ok /\ last.cbs = <<>>
    /\ last.name \in DOMAIN plugins
    /\ plugins[last.name].state = PS_ENABLED

\* C16: when on_enable raises, enable returns failure and the plugin's
\* state becomes error; the same instance stays in the catalog and the
\* hook registry is unchanged.
C16_FailedEnableSetsError ==
    [][(last'.op = "enable" /\ last'.raised # <<>>)
       => /\ ~last'.ok
          /\ DOMAIN plugins' = DOMAIN plugins
          /\ SameInstance(last'.name)
          /\ plugins'[last'.name].state = PS_ERROR
          /\ \A n \in DOMAIN plugins \ {last'.name} : plugins'[n] = plugins[n]
          /\ hooks' = hooks]_vars

\* An enable in which on_enable raised has returned; the plugin is in state
\* error and still owns a registration.
C16_Witness ==
    /\ last.op = "enable" /\ last.raised = <<"on_enable">>
    /\ last.name \in DOMAIN plugins
    /\ plugins[last.name].state = PS_ERROR
    /\ \E name \in DOMAIN hooks : Owned(hooks[name], last.name) # {}

\* C17: when on_disable raises, disable returns failure and the plugin's
\* state, the catalog and the hook registry are unchanged (the plugin is
\* not in state disabled, so another disable calls on_disable again).
C17_FailedDisableChangesNothing ==
    [][(last'.op = "disable" /\ last'.raised # <<>>)
       => /\ ~last'.ok
          /\ plugins' = plugins
          /\ hooks' = hooks
          /\ plugins'[last'.name].state # PS_DISABLED]_vars

\* A disable in which on_disable raised has returned; the plugin is still
\* enabled.
C17_Witness ==
    /\ last.op = "disable" /\ last.raised = <<"on_disable">>
    /\ last.name \in DOMAIN plugins
    /\ plugins[last.name].state = PS_ENABLED

\* C19: a load of a name whose type is in the cache uses the cached type
\* and does not resolve from the source; a type stays in the cache until
\* an unload of its name returns success, which evicts it; a load of a
\* name that is not in the cache (never resolved, or evicted) resolves from
\* the source.
C19_CachedUntilUnloaded ==
    [][/\ last'.op = "load" =>
            /\ last'.resolved <=> last'.name \notin DOMAIN loaded
            /\ (last'.name \in DOMAIN loaded /\ last'.ok) =>
                    \E n \in DOMAIN plugins' :
                        /\ plugins'[n].id = last'.ret
                        /\ plugins'[n].type = loaded[last'.name]
       /\ (last'.op = "unload" /\ last'.ok) =>
            last'.name \notin DOMAIN loaded'
       /\ \A n \in DOMAIN loaded :
            n \notin DOMAIN loaded' =>
                /\ last'.op = "unload" /\ last'.ok /\ last'.name = n]_vars

\* The second load of "a" has resolved its type from the source again: the
\* first load had cached it and an unload has evicted it since.
C19_Witness ==
    /\ last.op = "load" /\ last.name = "a" /\ last.ok /\ last.ret = 2
    /\ last.resolved
    /\ DOMAIN loaded = {"a"}

\* C18: for the sequence load(name), unload(name), load(name) with all
\* callbacks succeeding: immediately after the unload the hook registry
\* holds no registration owned by name and the catalog has no entry for
\* name; after the second load the registrations owned by name are the
\* same (hook names, priorities, counts) as after the first load.
C18_RoundTripRestoresHooks ==
    /\ last.trip.calls = 2 =>
            /\ Profile(hooks, last.name) = {}
            /\ last.name \notin DOMAIN plugins
    /\ last.trip.calls = 3 =>
            Profile(hooks, last.name) = last.trip.first

\* C20: a reload(name) of a plugin in the catalog that returns an instance
\* leaves what a load of name leaves when name is not loaded: the catalog
\* holds a fresh instance in state loaded under name, and name owns exactly
\* the hooks that instance registered in on_load, one copy of each, none
\* of them of the previous instance.
C20_ReloadIsFreshLoad ==
    [][(last'.op = "reload" /\ last'.ok /\ last'.name \in DOMAIN plugins)
       => LET n == last'.name
          IN  /\ n \in DOMAIN plugins'
              /\ plugins'[n].id = last'.ret
              /\ plugins'[n].id # plugins[n].id
              /\ plugins'[n].state = PS_LOADED
              /\ \A name \in DOMAIN hooks' :
                    \A k \in Owned(hooks'[name], n) :
                        hooks'[name][k].inst = last'.ret
              /\ Cardinality(UNION {{hooks'[name][k].id :
                                        k \in Owned(hooks'[name], n)} :
                                    name \in DOMAIN hooks'})
                    = Len(OnLoadHooks(plugins'[n].type))]_vars

\* C21: a plugin type built by the decorator invokes, for each of the four
\* lifecycle callbacks, the wrapped object's callback when the object
\* supplies one, and nothing for a callback it does not supply: the
\* methods of the wrapped object that a call has invoked are the
\* callbacks it has invoked on the plugin that the object supplies.
C21_DecoratedForwardsCallbacks ==
    last.name \in DecoratedNames =>
        last.wrapped =
            SelectSeq(last.cbs, LAMBDA cb : cb \in Wraps[Source[last.name]])

\* C22: load_all attempts a load for every name that discover returned, in
\* that order, whichever of them fail, and returns the number of loads
\* that returned an instance.
C22_LoadAllAttemptsEveryName ==
    [][last'.op = "load_all" =>
        LET batch == last'.batch
        IN  /\ [i \in 1..Len(batch.attempts) |-> batch.attempts[i].name]
                    = batch.discovered
            /\ last'.ret = Cardinality({i \in 1..Len(batch.attempts) :
                                           batch.attempts[i].ok})
            /\ last'.ret = nextInst' - nextInst]_vars

\* A load_all has attempted "c", which failed, and then "a", which
\* returned an instance, and has returned 1.
C22_Witness ==
    /\ last.op = "load_all"
    /\ last.batch.discovered = <<"c", "a">>
    /\ last.batch.attempts = <<[name |-> "c", ok |-> FALSE],
                               [name |-> "a", ok |-> TRUE]>>
    /\ last.ret = 1

\* C23: set_config(name, c) changes no instance in the catalog (the
\* configuration in the context of a loaded instance stays what it was);
\* the instance that a load of name creates receives the configuration
\* stored last under name, and the empty mapping when none is stored.
C23_ConfigReachesNextLoad ==
    [][/\ last'.op = "set_config" =>
            /\ plugins' = plugins
            /\ configs'[last'.name] \in Configs
       /\ (last'.op = "load" /\ last'.ok) =>
            \E n \in DOMAIN plugins' :
                /\ plugins'[n].id = last'.ret
                /\ plugins'[n].context.config =
                        IF last'.name \in DOMAIN configs
                        THEN configs[last'.name] ELSE "{}"]_vars

\* "a" was loaded with the configuration k1 stored, and a set_config of k2
\* since has left k1 in the context of the loaded instance.
C23_Witness ==
    /\ last.op = "set_config" /\ last.name = "a"
    /\ "a" \in DOMAIN plugins
    /\ plugins["a"].context.config = "k1"
    /\ configs["a"] = "k2"

\* C24: within one execute or execute_filter call, handler invocations
\* never overlap: at most one invoked handler has not ended, the call is
\* suspended in it, and a handler is started only when every handler
\* started before it has ended; the handlers of a call whose list did not
\* change are started in priority order.
C24_HandlersNeverOverlap ==
    LET started == Len(dispatch.called)
        ended == Len(dispatch.results)
    IN  /\ dispatch.status = "awaiting" =>
                /\ ended = started - 1
                /\ dispatch.called[started].async_handler
        /\ dispatch.status # "awaiting" => ended = started
        /\ ListUnchanged =>
                \A i, j \in 1..started :
                    i < j => dispatch.called[i].priority
                                <= dispatch.called[j].priority

\* A call is suspended in its second asynchronous handler, the first
\* having ended.
C24_Witness ==
    /\ dispatch.status = "awaiting"
    /\ Len(dispatch.called) = 2
    /\ Len(dispatch.results) = 1
    /\ dispatch.called[1].async_handler
    /\ dispatch.called[2].async_handler

\* The registrations of lst that existed before the step.
Older(lst) == SelectSeq(lst, LAMBDA r : r.id < nextReg)

\* C25: a load whose resolution, construction and on_load all succeed
\* invokes on_load exactly once, then registers exactly the hooks the
\* plugin registered during on_load (in that order, owned by the
\* descriptor name, next to the registrations there were), then adds the
\* instance to the catalog, in state loaded; no hook is in the registry
\* before on_load has returned: a load whose on_load raises registers
\* nothing.
C25_LoadRegistersHarvestedHooks ==
    [][last'.op = "load" =>
        LET t == LoaderLoad(loaded, last'.name).cls
            decls == OnLoadHooks(t)
        IN  /\ last'.ok =>
                /\ last'.cbs = <<"__init__", "on_load">>
                /\ nextReg' = nextReg + Len(decls)
                /\ \A k \in 1..Len(decls) :
                      \E i \in 1..Len(hooks'[decls[k].name]) :
                          hooks'[decls[k].name][i] =
                              HookRegistration(nextReg + k - 1, decls[k].name,
                                               decls[k].handler, InfoName(t),
                                               last'.ret, decls[k].priority,
                                               decls[k].async_handler)
                /\ \A name \in DOMAIN hooks' :
                      /\ Older(hooks'[name]) = HooksGet(hooks, name)
                      /\ Len(hooks'[name]) = Len(HooksGet(hooks, name))
                            + Cardinality({k \in 1..Len(decls) :
                                              decls[k].name = name})
                /\ DOMAIN plugins' = DOMAIN plugins \cup {InfoName(t)}
                /\ plugins'[InfoName(t)].id = last'.ret
                /\ plugins'[InfoName(t)].state = PS_LOADED
                /\ \A n \in DOMAIN plugins \ {InfoName(t)} :
                      plugins'[n] = plugins[n]
            /\ last'.raised # <<>> =>
                /\ hooks' = hooks
                /\ plugins' = plugins
                /\ nextReg' = nextReg]_vars

\* A load of "b" has returned an instance: its two hooks are registered
\* and the catalog holds it in state loaded.
C25_Witness ==
    /\ last.op = "load" /\ last.name = "b" /\ last.ok
    /\ "c" \in DOMAIN plugins
    /\ plugins["c"].id = last.ret
    /\ plugins["c"].state = PS_LOADED
    /\ \E i \in 1..Len(hooks["x"]) : hooks["x"][i].inst = last.ret
    /\ \E i \in 1..Len(hooks["y"]) : hooks["y"][i].inst = last.ret

\* C26: unload of a plugin in state enabled invokes on_disable once and
\* then on_unload once; unload of a plugin in any other state invokes
\* on_unload only; hooks, catalog entry and cached type are removed only
\* after the callbacks: when on_unload raises, nothing is removed.
C26_UnloadCallbackOrder ==
    [][(last'.op = "unload" /\ last'.name \in DOMAIN plugins) =>
        /\ last'.cbs = IF plugins[last'.name].state = PS_ENABLED
                       THEN <<"on_disable", "on_unload">>
                       ELSE <<"on_unload">>
        /\ (\E i \in 1..Len(last'.raised) : last'.raised[i] = "on_unload")
              => /\ hooks' = hooks
                 /\ DOMAIN plugins' = DOMAIN plugins
                 /\ loaded' = loaded]_vars

\* An unload of an enabled plugin has invoked on_disable and then
\* on_unload and has returned success.
C26_Witness ==
    /\ last.op = "unload" /\ last.ok
    /\ last.cbs = <<"on_disable", "on_unload">>
    /\ last.name \notin DOMAIN plugins

\* C27: enable and disable never change the hook registry, and a dispatch
\* does not look at the state of a plugin: a call during which the hook's
\* list did not change has invoked every handler in the list, those of
\* plugins in state loaded, disabled or error too.
C27_EnableDisableKeepHooks ==
    [][/\ last'.op \in {"enable", "disable"} => hooks' = hooks
       /\ (dispatch'.status = "done" /\ Cardinality(dispatch'.views) = 1)
            => Ids(dispatch'.called) \in dispatch'.views]_vars

\* An execute has invoked, in one step, the handler of a plugin that was
\* in state disabled.
C27_Witness ==
    /\ dispatch.status = "done" /\ last.op = "execute"
    /\ Len(dispatch.called) = 1
    /\ dispatch.idx = 1
    /\ ~dispatch.called[1].async_handler
    /\ dispatch.called[1].plugin_name \in DOMAIN plugins
    /\ plugins[dispatch.called[1].plugin_name].id = dispatch.called[1].inst
    /\ plugins[dispatch.called[1].plugin_name].state = PS_DISABLED

\* C28: the name n passed to a successful load(n) is the key used
\* everywhere for that plugin: the type is cached under n, the instance is
\* in the catalog under n, and its hook registrations are owned by n.
C28_LoadNameIsTheKey ==
    [][(last'.op = "load" /\ last'.ok) =>
        LET n == last'.name
        IN  /\ n \in DOMAIN loaded'
            /\ n \in DOMAIN plugins'
            /\ plugins'[n].id = last'.ret
            /\ \A name \in DOMAIN hooks' :
                  \A i \in 1..Len(hooks'[name]) :
                      hooks'[name][i].inst = last'.ret
                          => hooks'[name][i].plugin_name = n]_vars

====
